---- MODULE Spec2Model ----
(***************************************************************************)
(* Model of the violinova tuner core: the pitch-detection hook state, the  *)
(* note-append effect with its adaptive throttle, the bounded history      *)
(* (latestNotes) with React's updater queue, and the metronome timer that  *)
(* marks the newest history entry on each beat.                            *)
(*                                                                         *)
(* Frequencies are whole Hz, times whole milliseconds, clarity in percent. *)
(* A value of the hook's `freq` state is a tagged record: the number v,    *)
(* null, or NaN.                                                           *)
(***************************************************************************)
EXTENDS Integers, Sequences, FiniteSets, TLC

VARIABLES
    freq,              \* usePitchDetection: freq state
    clarity,           \* usePitchDetection: clarity state
    notePending,       \* the note-append effect is scheduled (its deps changed)
    latestNotes,       \* Tuner: latestNotes state as last rendered
    updateQueue,       \* updater functions passed to setLatestNotes, not yet applied
    addNoteRef,        \* Tuner: addNoteRef.current (time of the last append)
    lastFreqRef,       \* Tuner: lastFreqRef.current (frequency of the last append)
    now,               \* the clock read by the effect
    metronomeEnabled,  \* Tuner: metronomeEnabled state
    bpm,               \* Tuner: bpm state
    timeSignature,     \* Tuner: timeSignature state
    accentEnabled,     \* Tuner: accentEnabled state
    timers,            \* the interval timers that are active, with what they captured
    metronomeInterval, \* Tuner: metronomeInterval.current (a timer id, or 0 for null)
    beatCountRef,      \* Tuner: beatCountRef.current
    serial,            \* history: the buffer had every operation been applied at once
    delivered,         \* history: number of samples delivered by the detector
    ticksFired,        \* history: number of metronome beats fired
    lastOp,            \* history: the step taken last and what it saw
    beatIndex,         \* history: beats fired since the timer was last started
                       \* (counted by SpecMetro)
    stoppedAt,         \* history: beatCountRef when the metronome was last
                       \* switched off (recorded by SpecMetro)
    isMounted,         \* usePitchDetection's isMounted: the tuner is on screen
    metronomeSound,    \* Tuner: metronomeSound state
    metronomeVolume,   \* Tuner: metronomeVolume state, in tenths
    micPending,        \* usePitchDetection.setup waits for getUserMedia
    audioContext,      \* the AudioContext of setup: "none", "open" or "closed"
    pollTimer,         \* the timeout of usePitchDetection.update is scheduled
    cIn,               \* the frequency handed to the classifier and the grader
    cShift,            \* the number of octaves cIn is also transposed by
    cOut,              \* what frequencyToNote, noteAccuracy and accuracyColor return
    gIn,               \* a deviation in cents handed to the tier thresholds
    gOut,              \* the tier of gIn and of its negation
    sIn,               \* the range of the staff and one entry of the buffer
    sOut,              \* the staff configuration and where the entry is drawn
    lIn,               \* an index into a buffer and the length of the buffer
    lOut,              \* what getNoteLeft returns for it
    rIn,               \* an offset from A4 in cents handed to Math.round
    rOut,              \* the nearest semitone of rIn and what is derived from it
    sOrig              \* the staff configuration of the original generator

staffVars == <<sIn, sOut, lIn, lOut>>
roundVars == <<rIn, rOut>>
pureVars == <<cIn, cShift, cOut, gIn, gOut, staffVars, roundVars, sOrig>>

vars == <<freq, clarity, notePending, latestNotes, updateQueue, addNoteRef,
          lastFreqRef, now, metronomeEnabled, bpm, timeSignature, accentEnabled,
          timers, metronomeInterval, beatCountRef, serial, delivered,
          ticksFired, lastOp, beatIndex, stoppedAt, isMounted, metronomeSound,
          metronomeVolume, micPending, audioContext, pollTimer, pureVars>>

samplerVars == <<freq, clarity, notePending, addNoteRef, lastFreqRef>>
metronomeVars == <<metronomeEnabled, bpm, timeSignature, accentEnabled,
                   timers, metronomeInterval, beatCountRef>>
soundVars == <<metronomeSound, metronomeVolume>>
hookVars == <<micPending, audioContext, pollTimer>>

----------------------------------------------------------------------------
(* Bounds of the model *)

MaxSamples == 3        \* samples delivered by the detector in Spec
MaxThrottleSamples == 3 \* samples delivered by the detector in SpecThrottle
MaxTime == 41          \* the clock stops advancing here
MaxPending == 2        \* updaters queued before a render
FillExtra == 3         \* SpecFill delivers capacity + FillExtra samples
MaxFillTicks == 2      \* beats fired in SpecFill
MaxShift == 2          \* octaves a classified frequency is transposed by
MaxCents == 60         \* the largest deviation handed to the tier thresholds
MaxBeats == 9          \* beats fired in SpecMetro
MaxSessionSamples == 3 \* samples delivered in SpecSession
MaxSessionTicks == 3   \* timer callbacks run in SpecSession
MaxOctave == 8         \* the highest octave of a note drawn on the staff
MaxOver == 2           \* entries beyond the capacity handed to getNoteLeft

(* Program constants *)

A4 == 442
Capacity == 250
JumpThreshold == 10
MinInterval == 16

----------------------------------------------------------------------------
(* Values of the hook's freq state *)

Null == [tag |-> "null", val |-> 0]
NaN == [tag |-> "NaN", val |-> 0]
Num(v) == [tag |-> "num", val |-> v]

\* JavaScript's !freq : null, NaN and 0 are falsy, every other number is truthy
Falsy(f) == f.tag # "num" \/ f.val = 0

Abs(x) == IF x < 0 THEN -x ELSE x

\* JavaScript's % : the result takes the sign of the dividend
JsMod(a, b) == IF a >= 0 THEN a % b ELSE -((-a) % b)

\* Math.floor(a / b) for b > 0
FloorDiv(a, b) == a \div b

NOTES == <<"C", "C#", "D", "D#", "E", "F", "F#", "G", "G#", "A", "A#", "B">>

\* the frequencies, in Hz, the model knows the logarithm of: each with its
\* octaves, from below C0 (16.4 Hz) up to A7
ClassifyHz ==
    {8, 9, 10, 11, 12, 14, 15, 16, 17, 18, 19, 20,
     22, 24, 28, 30, 32, 36, 38, 40, 44, 48, 56, 60,
     64, 72, 76, 80, 88, 96, 112, 120, 128, 144, 152, 160,
     165, 176, 192, 221, 224, 225, 231, 240, 256, 288, 304, 320,
     330, 352, 384, 440, 442, 448, 450, 456, 462, 480, 512, 576, 608,
     640, 660, 704, 768, 884, 896, 900, 924, 960, 1024, 1152, 1216,
     1280, 1320, 1408, 1536, 1768, 1792, 1800, 1848, 1920, 2048, 2304, 2432,
     2560, 2640, 2816, 3072, 3536, 3584, 3600}

\* 1200 * Math.log2(hz / A4), to the nearest cent, for the frequencies of
\* ClassifyHz; none of them is within a cent of the middle between two
\* semitones
Log2Cents(hz) ==
    CASE hz = 8 -> -6945
      [] hz = 9 -> -6742
      [] hz = 10 -> -6559
      [] hz = 11 -> -6394
      [] hz = 12 -> -6244
      [] hz = 14 -> -5977
      [] hz = 15 -> -5857
      [] hz = 16 -> -5745
      [] hz = 17 -> -5641
      [] hz = 18 -> -5542
      [] hz = 19 -> -5448
      [] hz = 20 -> -5359
      [] hz = 22 -> -5194
      [] hz = 24 -> -5044
      [] hz = 28 -> -4777
      [] hz = 30 -> -4657
      [] hz = 32 -> -4545
      [] hz = 36 -> -4342
      [] hz = 38 -> -4248
      [] hz = 40 -> -4159
      [] hz = 44 -> -3994
      [] hz = 48 -> -3844
      [] hz = 56 -> -3577
      [] hz = 60 -> -3457
      [] hz = 64 -> -3345
      [] hz = 72 -> -3142
      [] hz = 76 -> -3048
      [] hz = 80 -> -2959
      [] hz = 88 -> -2794
      [] hz = 96 -> -2644
      [] hz = 112 -> -2377
      [] hz = 120 -> -2257
      [] hz = 128 -> -2145
      [] hz = 144 -> -1942
      [] hz = 152 -> -1848
      [] hz = 160 -> -1759
      [] hz = 165 -> -1706
      [] hz = 176 -> -1594
      [] hz = 192 -> -1444
      [] hz = 221 -> -1200
      [] hz = 224 -> -1177
      [] hz = 225 -> -1169
      [] hz = 231 -> -1123
      [] hz = 240 -> -1057
      [] hz = 256 -> -945
      [] hz = 288 -> -742
      [] hz = 304 -> -648
      [] hz = 320 -> -559
      [] hz = 330 -> -506
      [] hz = 352 -> -394
      [] hz = 384 -> -244
      [] hz = 440 -> -8
      [] hz = 442 -> 0
      [] hz = 448 -> 23
      [] hz = 450 -> 31
      [] hz = 456 -> 54
      [] hz = 462 -> 77
      [] hz = 480 -> 143
      [] hz = 512 -> 255
      [] hz = 576 -> 458
      [] hz = 608 -> 552
      [] hz = 640 -> 641
      [] hz = 660 -> 694
      [] hz = 704 -> 806
      [] hz = 768 -> 956
      [] hz = 884 -> 1200
      [] hz = 896 -> 1223
      [] hz = 900 -> 1231
      [] hz = 924 -> 1277
      [] hz = 960 -> 1343
      [] hz = 1024 -> 1455
      [] hz = 1152 -> 1658
      [] hz = 1216 -> 1752
      [] hz = 1280 -> 1841
      [] hz = 1320 -> 1894
      [] hz = 1408 -> 2006
      [] hz = 1536 -> 2156
      [] hz = 1768 -> 2400
      [] hz = 1792 -> 2423
      [] hz = 1800 -> 2431
      [] hz = 1848 -> 2477
      [] hz = 1920 -> 2543
      [] hz = 2048 -> 2655
      [] hz = 2304 -> 2858
      [] hz = 2432 -> 2952
      [] hz = 2560 -> 3041
      [] hz = 2640 -> 3094
      [] hz = 2816 -> 3206
      [] hz = 3072 -> 3356
      [] hz = 3536 -> 3600
      [] hz = 3584 -> 3623
      [] hz = 3600 -> 3631

\* A slip: a half is rounded away from zero
MutMathRoundHalfAway(cents) ==
    IF cents >= 0 THEN FloorDiv(cents + 50, 100) ELSE -FloorDiv(50 - cents, 100)

\* Math.round(x) for x = cents / 100: the nearest integer, a half going up
MathRound(cents) == FloorDiv(cents + 50, 100)

\* Math.round(12 * Math.log2(freq / A4)) : round half up
NearestSemitone(hz) == MathRound(Log2Cents(hz))

\* A slip: the offset that places A4 is one semitone off
MutNoteIndexOffset(hz) == NearestSemitone(hz) + 58

\* const noteIndex = Math.round(semitones) + 57
NoteIndex(hz) == NearestSemitone(hz) + 57

\* the same for a frequency given by its offset from A4 in cents
NoteIndexAt(cents) == MathRound(cents) + 57

\* noteIndex % 12, the index into NOTES
PitchClassIndex(noteIndex) == JsMod(noteIndex, 12)

\* NOTES[noteIndex % 12] : undefined for a negative index (NOTES[-0] is NOTES[0])
NoteName(noteIndex) ==
    LET i == PitchClassIndex(noteIndex)
    IN  IF i >= 0 THEN NOTES[i + 1] ELSE "undefined"

\* Math.floor(noteIndex / 12)
Octave(noteIndex) == FloorDiv(noteIndex, 12)

\* frequencyToNote: the label of a frequency. Math.log2 of a negative number
\* is NaN, and NOTES[NaN] is undefined.
frequencyToNote(f) ==
    IF Falsy(f) THEN "--"
    ELSE IF f.val < 0 THEN "undefinedNaN"
    ELSE LET noteIndex == NoteIndex(f.val)
             note == NoteName(noteIndex)
             octave == Octave(noteIndex)
         IN  note \o ToString(octave)

\* A slip: the deviation is taken from A4, not from the nearest note
MutCentsFromReference(hz) == Log2Cents(hz)

\* nearestFreq = A4 * Math.pow(2, nearest / 12);
\* cents = 1200 * Math.log2(freq / nearestFreq), to the nearest cent
Cents(hz) == Log2Cents(hz) - 100 * NearestSemitone(hz)

\* the same for a frequency given by its offset from A4 in cents
CentsAt(cents) == cents - 100 * MathRound(cents)

\* cents.toFixed(1) of a whole number of cents
ToFixed1(cents) == ToString(cents) \o ".0"

\* noteAccuracy: the deviation as text; for a negative frequency cents is
\* NaN, NaN > 0 is false and NaN.toFixed(1) is 'NaN'
noteAccuracy(f) ==
    IF Falsy(f) THEN "--"
    ELSE IF f.val < 0 THEN "NaN"
    ELSE LET cents == Cents(f.val)
         IN  (IF cents > 0 THEN "+" ELSE "") \o ToFixed1(cents)

\* A slip: the thresholds are not strict
MutTierOfInclusive(absCents) ==
    IF absCents <= 5 THEN "bg-green-500"
    ELSE IF absCents <= 15 THEN "bg-yellow-400"
    ELSE IF absCents <= 30 THEN "bg-orange-400"
    ELSE "bg-red-500"

\* if (cents < 5) green; if (cents < 15) yellow; if (cents < 30) orange; red
TierOf(absCents) ==
    IF absCents < 5 THEN "bg-green-500"
    ELSE IF absCents < 15 THEN "bg-yellow-400"
    ELSE IF absCents < 30 THEN "bg-orange-400"
    ELSE "bg-red-500"

\* accuracyColor: for a negative frequency cents is NaN, every comparison
\* with it is false, and the last return is taken
accuracyColor(f) ==
    IF Falsy(f) THEN "bg-gray-400"
    ELSE IF f.val < 0 THEN "bg-red-500"
    ELSE TierOf(Abs(Cents(f.val)))

\* 2^k
RECURSIVE Pow2(_)
Pow2(k) == IF k = 0 THEN 1 ELSE 2 * Pow2(k - 1)

\* f * 2^k
Transposed(f, k) == IF f.tag = "num" THEN Num(f.val * Pow2(k)) ELSE f

\* what the three functions return for f, the locals of frequencyToNote and
\* noteAccuracy behind it (for a frequency above 0), and the same for f * 2^k
Parts(f) ==
    IF f.tag = "num" /\ f.val > 0
    THEN [pcIndex |-> PitchClassIndex(NoteIndex(f.val)),
          pc |-> NoteName(NoteIndex(f.val)),
          octave |-> Octave(NoteIndex(f.val)),
          cents |-> Cents(f.val)]
    ELSE [pcIndex |-> 0, pc |-> "none", octave |-> 0, cents |-> 0]

ClassifyResult(f, k) ==
    [done |-> TRUE,
     label |-> frequencyToNote(f),
     accuracy |-> noteAccuracy(f),
     color |-> accuracyColor(f),
     parts |-> Parts(f),
     label2 |-> frequencyToNote(Transposed(f, k)),
     accuracy2 |-> noteAccuracy(Transposed(f, k)),
     parts2 |-> Parts(Transposed(f, k))]

NoResult ==
    [done |-> FALSE, label |-> "", accuracy |-> "", color |-> "",
     parts |-> Parts(Null), label2 |-> "", accuracy2 |-> "", parts2 |-> Parts(Null)]

NoGrade == [done |-> FALSE, tier |-> "", mirror |-> ""]

----------------------------------------------------------------------------
(* The staff. A note name is a record of its letter, its accidental and its *)
(* octave; "#" stands for both spellings of the sharp and "b" for both of   *)
(* the flat, which the code replaces or strips before every lookup. A       *)
(* position is a percentage of the height; to keep 80 / (totalNotes - 1)    *)
(* and the halves exact, positions are counted in units of                  *)
(* 1 / Scale(totalNotes) percent.                                           *)

Note(l, a, o) == [letter |-> l, acc |-> a, octave |-> o]

NOTE_ORDER == <<"C", "D", "E", "F", "G", "A", "B">>
Letters == {NOTE_ORDER[i] : i \in 1..7}
NOTE_ORDER_MAP(l) == CHOOSE i \in 0..6 : NOTE_ORDER[i + 1] = l

\* ALL_NOTES runs from C0 to B8
Octaves == 0..8

\* NATURAL_NOTES.findIndex(note => note === name): the naturals of ALL_NOTES
\* in ascending order, seven to an octave
NaturalIndexOf(n) ==
    IF n.acc = "" /\ n.letter \in Letters /\ n.octave \in Octaves
    THEN n.octave * 7 + NOTE_ORDER_MAP(n.letter)
    ELSE -1

\* NATURAL_NOTES[i]
NATURAL_NOTES(i) == Note(NOTE_ORDER[(i % 7) + 1], "", i \div 7)

NOTE_RANGES ==
    [violin |-> [low |-> Note("G", "", 3), high |-> Note("E", "", 7)],
     piano |-> [low |-> Note("A", "", 0), high |-> Note("C", "", 8)],
     guitar |-> [low |-> Note("E", "", 2), high |-> Note("E", "", 6)],
     bass |-> [low |-> Note("E", "", 1), high |-> Note("G", "", 4)],
     custom |-> [low |-> Note("C", "", 3), high |-> Note("C", "", 6)]]

\* FLAT_TO_SHARP_MAP[noteBase + 'b'], "undefined" for a key it does not have
FLAT_TO_SHARP_MAP(l) ==
    CASE l = "D" -> "C" [] l = "E" -> "D" [] l = "G" -> "F" [] l = "A" -> "G"
      [] l = "B" -> "A" [] OTHER -> "undefined"

\* FLAT_TO_SHARP_MAP[noteBase + 'b'] + octave || flatNote: the concatenation
\* is never empty, so flatNote is never returned
convertFlatToSharp(flatNote) ==
    LET sharpBase == FLAT_TO_SHARP_MAP(flatNote.letter)
    IN  IF sharpBase = "undefined"
        THEN Note("undefined", "", flatNote.octave)
        ELSE Note(sharpBase, "#", flatNote.octave)

getNextNaturalNote(note) ==
    LET index == NOTE_ORDER_MAP(note.letter)
    IN  IF index = 6 THEN Note("C", "", note.octave + 1)
        ELSE Note(NOTE_ORDER[index + 2], "", note.octave)

\* the unit of the positions of a staff of totalNotes lines
Scale(totalNotes) == 2 * (totalNotes - 1)

\* A slip: the lowest note is put at the top
MutNaturalPositionAscending(index, totalNotes) == 10 * Scale(totalNotes) + index * 160

\* spacing = 80 / (totalNotes - 1); position = 90 - index * spacing
NaturalPosition(index, totalNotes) == 90 * Scale(totalNotes) - index * 160

\* A slip: the sharp is put on the line of the natural below it
MutSharpPositionBelow(positionBelow, positionAbove) == positionBelow

\* sharpPosition = (positionBelow + positionAbove) * 0.5
SharpPosition(positionBelow, positionAbove) == (positionBelow + positionAbove) \div 2

\* A slip: the fallback is the custom preset
MutDefaultRangeCustom == NOTE_RANGES.custom

\* return generateStaffConfig('G3', 'E7')
DefaultRange == [low |-> Note("G", "", 3), high |-> Note("E", "", 7)]

\* A slip: the loop over the octaves stops one short of the last
MutSharpsOfRangeExclusive(startOctave, endOctave) ==
    {Note(l, "#", o) : l \in {"C", "D", "F", "G", "A"},
                       o \in startOctave..(endOctave - 1)}

\* for (octave = startOctave; octave <= endOctave; octave++)
\*   ['C♯', 'D♯', 'F♯', 'G♯', 'A♯'].forEach(...) : the sharps looked at
SharpsOfRange(startOctave, endOctave) ==
    {Note(l, "#", o) : l \in {"C", "D", "F", "G", "A"}, o \in startOctave..endOctave}

RECURSIVE generateStaffConfig(_, _)
generateStaffConfig(lowNote, highNote) ==
    LET lowIndex == NaturalIndexOf(lowNote)
        highIndex == NaturalIndexOf(highNote)
    IN  IF lowIndex = -1 \/ highIndex = -1 \/ lowIndex >= highIndex
        THEN generateStaffConfig(DefaultRange.low, DefaultRange.high)
        ELSE
          LET rangeNotes == [i \in 1..(highIndex - lowIndex + 1) |->
                                NATURAL_NOTES(lowIndex + i - 1)]
              totalNotes == Len(rangeNotes)
              staffLines == [i \in 1..totalNotes |->
                                [note |-> rangeNotes[i],
                                 position |-> NaturalPosition(i - 1, totalNotes)]]
              naturals == {rangeNotes[i] : i \in 1..totalNotes}
              naturalPosition(n) == NaturalPosition(NaturalIndexOf(n) - lowIndex, totalNotes)
              startOctave == rangeNotes[1].octave
              endOctave == rangeNotes[totalNotes].octave
              sharps == {sh \in SharpsOfRange(startOctave, endOctave) :
                           /\ Note(sh.letter, "", sh.octave) \in naturals
                           /\ getNextNaturalNote(Note(sh.letter, "", sh.octave)) \in naturals}
              notePositions ==
                  [k \in naturals \cup sharps |->
                      IF k.acc = "" THEN naturalPosition(k)
                      ELSE LET naturalBelow == Note(k.letter, "", k.octave)
                               naturalAbove == getNextNaturalNote(naturalBelow)
                           IN  SharpPosition(naturalPosition(naturalBelow),
                                             naturalPosition(naturalAbove))]
          IN  [low |-> lowNote, high |-> highNote, totalNotes |-> totalNotes,
               staffLines |-> staffLines, notePositions |-> notePositions]

----------------------------------------------------------------------------
(* The staff generator before it was optimized *)

\* ALL_NOTES.forEach((note) => { if (note.includes('♯')) ... }) : the sharps
\* of the chromatic table
SharpsOfTable == {Note(l, "#", o) : l \in {"C", "D", "F", "G", "A"}, o \in Octaves}

\* noteOrder.indexOf(note.charAt(0)), then B -> C of the next octave
getNextNaturalNoteOriginal(note) ==
    LET noteOrder == <<"C", "D", "E", "F", "G", "A", "B">>
        currentIndex == CHOOSE i \in 0..6 : noteOrder[i + 1] = note.letter
    IN  IF currentIndex = 6 THEN Note("C", "", note.octave + 1)
        ELSE Note(noteOrder[currentIndex + 2], "", note.octave)

\* (positionBelow + positionAbove) / 2
SharpPositionOriginal(positionBelow, positionAbove) ==
    (positionBelow + positionAbove) \div 2

RECURSIVE generateStaffConfigOriginal(_, _)
generateStaffConfigOriginal(lowNote, highNote) ==
    LET lowIndex == NaturalIndexOf(lowNote)
        highIndex == NaturalIndexOf(highNote)
    IN  IF lowIndex = -1 \/ highIndex = -1 \/ lowIndex >= highIndex
        THEN generateStaffConfigOriginal(Note("G", "", 3), Note("E", "", 7))
        ELSE
          LET rangeNotes == [i \in 1..(highIndex - lowIndex + 1) |->
                                NATURAL_NOTES(lowIndex + i - 1)]
              totalNotes == Len(rangeNotes)
              staffLines == [i \in 1..totalNotes |->
                                [note |-> rangeNotes[i],
                                 position |-> NaturalPosition(i - 1, totalNotes)]]
              naturals == {rangeNotes[i] : i \in 1..totalNotes}
              naturalPosition(n) == NaturalPosition(NaturalIndexOf(n) - lowIndex, totalNotes)
              sharps == {sh \in SharpsOfTable :
                           /\ Note(sh.letter, "", sh.octave) \in naturals
                           /\ getNextNaturalNoteOriginal(Note(sh.letter, "", sh.octave))
                                  \in naturals}
              notePositions ==
                  [k \in naturals \cup sharps |->
                      IF k.acc = "" THEN naturalPosition(k)
                      ELSE LET naturalBelow == Note(k.letter, "", k.octave)
                               naturalAbove == getNextNaturalNoteOriginal(naturalBelow)
                           IN  SharpPositionOriginal(naturalPosition(naturalBelow),
                                                     naturalPosition(naturalAbove))]
          IN  [low |-> lowNote, high |-> highNote, totalNotes |-> totalNotes,
               staffLines |-> staffLines, notePositions |-> notePositions]

----------------------------------------------------------------------------

\* notePositions[key], undefined for a key it does not have
Undefined == -1
Lookup(notePositions, key) ==
    IF key \in DOMAIN notePositions THEN notePositions[key] ELSE Undefined

\* a || b: undefined and 0 are falsy
Or(a, b) == IF a = Undefined \/ a = 0 THEN b ELSE a

\* getNotePosition for the staff configuration config
getNotePosition(config, note) ==
    LET notePositions == config.notePositions
        fifty == 50 * Scale(config.totalNotes)
        baseNote == Note(note.letter, "", note.octave)
        position == Lookup(notePositions, baseNote)
    IN  IF note.acc = "#"
        THEN Or(Lookup(notePositions, note), Or(position, fifty))
        ELSE IF note.acc = "b"
        THEN LET equivalentSharp == convertFlatToSharp(note)
             IN  Or(Lookup(notePositions, equivalentSharp), Or(position, fifty))
        ELSE Or(position, fifty)

\* notes.map: if (item.clarity <= 0.7) return null;
\*            if (position < 10 || position > 90) return null
Rendered(config, position, c) ==
    /\ ~(c <= 70)
    /\ ~(position < 10 * Scale(config.totalNotes)
          \/ position > 90 * Scale(config.totalNotes))

\* relativeIdx = idx - Math.max(0, total - 250)
RelativeIdx(idx, total) == idx - (IF total - Capacity > 0 THEN total - Capacity ELSE 0)

\* getNoteLeft: calc(${relativeIdx * 0.32}% - 4px): the percentage, in
\* hundredths of a percent; the 4px are the same for every entry
getNoteLeft(idx, total) == RelativeIdx(idx, total) * 32

NoStaff ==
    [done |-> FALSE, low |-> Note("", "", 0), high |-> Note("", "", 0), totalNotes |-> 0,
     staffLines |-> <<>>, notePositions |-> <<>>, position |-> Undefined,
     sharpPosition |-> Undefined, rendered |-> FALSE]

NoLeft == [done |-> FALSE, left |-> 0, newest |-> 0]
NoRound == [done |-> FALSE, nearest |-> 0, pitchClass |-> "", octave |-> 0,
            cents |-> 0, color |-> ""]

NoStaffIn == [range |-> NOTE_RANGES.violin, note |-> Note("", "", 0), clarity |-> 0]

----------------------------------------------------------------------------
(* The history buffer and its two updaters *)

Min(a, b) == IF a < b THEN a ELSE b

\* array.slice(-n) : the last n elements
SliceLast(s, n) == SubSeq(s, Len(s) - Min(n, Len(s)) + 1, Len(s))

\* Three slips of the append updater: it adds at the head; it never evicts;
\* it evicts at the tail.
MutAppendFront(prev, obs) == <<obs>> \o prev
MutAppendNoEvict(prev, obs) == Append(prev, obs)
MutAppendKeepHead(prev, obs) ==
    LET newNotes == Append(prev, obs)
    IN  IF Len(newNotes) > Capacity THEN SubSeq(newNotes, 1, Capacity) ELSE newNotes

\* (prev) => { newNotes = [...prev, obs];
\*             return newNotes.length > 250 ? newNotes.slice(-250) : newNotes }
AppendUpdater(prev, obs) ==
    LET newNotes == Append(prev, obs)
    IN  IF Len(newNotes) > Capacity THEN SliceLast(newNotes, Capacity) ELSE newNotes

NoObs == [note |-> "--", freq |-> 0, clarity |-> 0, isTick |-> FALSE]

\* Three slips of the tick updater: on an empty buffer it adds an entry; it
\* marks every entry; it keeps the mark on the newest entry only.
MutTickGrow(prev) ==
    IF Len(prev) = 0 THEN <<[NoObs EXCEPT !.isTick = TRUE]>>
    ELSE [prev EXCEPT ![Len(prev)] = [@ EXCEPT !.isTick = TRUE]]
MutTickAll(prev) == [i \in 1..Len(prev) |-> [prev[i] EXCEPT !.isTick = TRUE]]
MutTickExclusive(prev) ==
    [i \in 1..Len(prev) |-> [prev[i] EXCEPT !.isTick = (i = Len(prev))]]

\* (prev) => { if (prev.length === 0) return prev; newNotes = [...prev];
\*             newNotes[last] = {...newNotes[last], isTick: true}; return newNotes }
TickUpdater(prev) ==
    IF Len(prev) = 0 THEN prev
    ELSE [prev EXCEPT ![Len(prev)] = [@ EXCEPT !.isTick = TRUE]]

AppendOp(obs) == [op |-> "append", obs |-> obs]
TickOp == [op |-> "tick", obs |-> NoObs]

ApplyUpdater(u, prev) ==
    IF u.op = "append" THEN AppendUpdater(prev, u.obs) ELSE TickUpdater(prev)

\* A slip: every queued updater sees the rendered array, as when the new
\* array is built from the latestNotes of the closure; the last one wins.
MutApplyStale(q, prev) ==
    IF q = <<>> THEN prev ELSE ApplyUpdater(q[Len(q)], prev)

\* React applies the queued updaters in the order they were enqueued, each
\* to the result of the one before
RECURSIVE ApplyQueue(_, _)
ApplyQueue(q, prev) ==
    IF q = <<>> THEN prev ELSE ApplyQueue(Tail(q), ApplyUpdater(Head(q), prev))

\* setLatestNotes(updater)
Enqueue(q, u) == Append(q, u)

----------------------------------------------------------------------------
(* The throttle *)

\* A slip: the observation is built with the tick mark already set
MutObservationTicked(f, c) ==
    [note |-> frequencyToNote(f), freq |-> f.val, clarity |-> c, isTick |-> TRUE]

\* const note = frequencyToNote(freq); ... { note, freq, clarity }
\* (isTick is left out of the object, which reads as false)
Observation(f, c) ==
    [note |-> frequencyToNote(f), freq |-> f.val, clarity |-> c, isTick |-> FALSE]

\* if (!freq) return;
MutRejectsNotNull(f) == f.tag = "NaN" \/ (f.tag = "num" /\ f.val = 0)
Rejects(f) == Falsy(f)

\* A slip: a change of exactly 10 Hz counts as a jump
MutShouldUpdateGe(freqChange, timeSinceLastUpdate) ==
    freqChange >= JumpThreshold \/ timeSinceLastUpdate >= MinInterval

\* shouldUpdate = freqChange > 10 || timeSinceLastUpdate >= 16
ShouldUpdate(freqChange, timeSinceLastUpdate) ==
    freqChange > JumpThreshold \/ timeSinceLastUpdate >= MinInterval

----------------------------------------------------------------------------
(* Inputs *)

\* what the detector may deliver as a pitch in Spec: nothing, or one of two tones
Pitches == {Null, Num(440), Num(462)}
Clarities == {100}
\* and in SpecThrottle: nothing, malformed values, and tones 2, 10, 12 and
\* 20 Hz apart, with a clarity that may or may not change
ThrottlePitches == {Null, NaN, Num(0), Num(-440), Num(440), Num(442), Num(450), Num(462)}
ThrottleClarities == {90, 100}
TimeSteps == {5, 16}
StartTime == 20
MaxStreamTicks == 2
MaxOffset == 250
MaxDriftSamples == 4
MaxLifecycleSamples == 3
MaxLifecycleTicks == 2
BpmChoices == {60, 120}
SoundChoices == {"click", "beep", "wood"}
VolumeChoices == {2, 5}
SigChoices == {"4/4", "3/4"}

\* parseInt(timeSignature.split('/')[0])
BeatsPerMeasure(ts) ==
    CASE ts = "2/4" -> 2
      [] ts = "3/4" -> 3
      [] ts = "4/4" -> 4
      [] ts = "6/8" -> 6
      [] ts = "7/8" -> 7
      [] ts = "9/8" -> 9
      [] ts = "12/8" -> 12

\* lastOp: the step, what the throttle computed, what a render applied, the
\* isAccent a beat passed to playMetronomeTick, and the beat counter a change
\* of the sound found
Step(name) == [op |-> name, freqChange |-> 0, timeSince |-> 0, applied |-> 0,
               ticks |-> 0, accent |-> FALSE, threw |-> FALSE, count |-> 0]
NoStep == Step("mount")
Throttled(name, fc, ts) == [Step(name) EXCEPT !.freqChange = fc, !.timeSince = ts]

NumTicks(q) == Cardinality({i \in 1..Len(q) : q[i].op = "tick"})
NumAppends(q) == Len(q) - NumTicks(q)

----------------------------------------------------------------------------
(* The state after the component has mounted: both effects have run once,   *)
(* with freq = null and the metronome disabled.                             *)

TunerMounted ==
    /\ freq = Null
    /\ clarity = 0
    /\ notePending = FALSE
    /\ latestNotes = <<>>
    /\ updateQueue = <<>>
    /\ addNoteRef = 0
    /\ lastFreqRef = 0
    /\ now = StartTime
    /\ metronomeEnabled = FALSE
    /\ bpm = 60
    /\ timeSignature = "4/4"
    /\ accentEnabled = TRUE
    /\ timers = {}
    /\ metronomeInterval = 0
    /\ beatCountRef = 0
    /\ serial = <<>>
    /\ delivered = 0
    /\ ticksFired = 0
    /\ lastOp = NoStep
    /\ beatIndex = 0
    /\ stoppedAt = 0
    /\ isMounted = TRUE
    /\ metronomeSound = "click"
    /\ metronomeVolume = 2

\* usePitchDetection.setup has run to its end: the microphone was granted,
\* the AudioContext is open and update polls
HookReady ==
    /\ micPending = FALSE
    /\ audioContext = "open"
    /\ pollTimer = TRUE

InitTuner ==
    /\ TunerMounted
    /\ HookReady

\* nothing classified, graded or drawn
ClassifierIdle == cIn = Null /\ cShift = 0 /\ cOut = NoResult
GraderIdle == gIn = 0 /\ gOut = NoGrade
StaffIdle == sIn = NoStaffIn /\ sOut = NoStaff
LeftIdle == lIn = [idx |-> 0, total |-> 0] /\ lOut = NoLeft
RoundIdle == rIn = 0 /\ rOut = NoRound
OriginalIdle == sOrig = NoStaff

Init ==
    /\ InitTuner
    /\ ClassifierIdle
    /\ GraderIdle
    /\ StaffIdle
    /\ LeftIdle
    /\ RoundIdle
    /\ OriginalIdle

----------------------------------------------------------------------------
(* usePitchDetection.update: one poll of the detector. React re-renders and *)
(* schedules the note-append effect only when freq or clarity changed       *)
(* (Object.is on each dependency).                                          *)

DepsChanged(p, c) == p # freq \/ c # clarity

Update(p, c) ==
    /\ isMounted
    /\ ~notePending
    /\ freq' = p
    /\ clarity' = c
    /\ notePending' = DepsChanged(p, c)
    /\ delivered' = delivered + 1
    /\ lastOp' = Step("update")
    /\ UNCHANGED <<latestNotes, updateQueue, addNoteRef, lastFreqRef, now,
                   metronomeVars, serial, ticksFired, beatIndex, stoppedAt, isMounted,
                   soundVars, hookVars, pureVars>>

DetectorUpdate ==
    /\ delivered < MaxSamples
    /\ \E p \in Pitches, c \in Clarities : Update(p, c)

\* A slip: a sample dropped by the throttle is remembered as the last frequency
MutNoteAppendEffectTracksDropped ==
    /\ notePending
    /\ Len(updateQueue) < MaxPending
    /\ notePending' = FALSE
    /\ IF Rejects(freq)
       THEN /\ lastOp' = Step("rejected")
            /\ UNCHANGED <<addNoteRef, lastFreqRef, updateQueue, serial>>
       ELSE LET timeSinceLastUpdate == now - addNoteRef
                freqChange == Abs(freq.val - lastFreqRef)
                obs == Observation(freq, clarity)
            IN  IF ~ShouldUpdate(freqChange, timeSinceLastUpdate)
                THEN /\ lastOp' = Throttled("dropped", freqChange, timeSinceLastUpdate)
                     /\ lastFreqRef' = freq.val
                     /\ UNCHANGED <<addNoteRef, updateQueue, serial>>
                ELSE /\ addNoteRef' = now
                     /\ lastFreqRef' = freq.val
                     /\ updateQueue' = Enqueue(updateQueue, AppendOp(obs))
                     /\ serial' = AppendUpdater(serial, obs)
                     /\ lastOp' = Throttled("appended", freqChange, timeSinceLastUpdate)
    /\ UNCHANGED <<freq, clarity, latestNotes, now, metronomeVars, delivered,
                   ticksFired, beatIndex, stoppedAt, isMounted,
                   soundVars, hookVars, pureVars>>

(* The note-append effect of Tuner *)
NoteAppendEffect ==
    /\ notePending
    /\ Len(updateQueue) < MaxPending
    /\ notePending' = FALSE
    /\ IF Rejects(freq)
       THEN /\ lastOp' = Step("rejected")
            /\ UNCHANGED <<addNoteRef, lastFreqRef, updateQueue, serial>>
       ELSE LET timeSinceLastUpdate == now - addNoteRef
                freqChange == Abs(freq.val - lastFreqRef)
                obs == Observation(freq, clarity)
            IN  IF ~ShouldUpdate(freqChange, timeSinceLastUpdate)
                THEN /\ lastOp' = Throttled("dropped", freqChange, timeSinceLastUpdate)
                     /\ UNCHANGED <<addNoteRef, lastFreqRef, updateQueue, serial>>
                ELSE /\ addNoteRef' = now
                     /\ lastFreqRef' = freq.val
                     /\ updateQueue' = Enqueue(updateQueue, AppendOp(obs))
                     /\ serial' = AppendUpdater(serial, obs)
                     /\ lastOp' = Throttled("appended", freqChange, timeSinceLastUpdate)
    /\ UNCHANGED <<freq, clarity, latestNotes, now, metronomeVars, delivered,
                   ticksFired, beatIndex, stoppedAt, isMounted,
                   soundVars, hookVars, pureVars>>

(* React renders: the queued updaters are applied to latestNotes *)
Render ==
    /\ updateQueue # <<>>
    /\ latestNotes' = ApplyQueue(updateQueue, latestNotes)
    /\ updateQueue' = <<>>
    /\ lastOp' = [Step("render") EXCEPT !.applied = Len(updateQueue),
                                        !.ticks = NumTicks(updateQueue)]
    /\ UNCHANGED <<samplerVars, now, metronomeVars, serial, delivered, ticksFired,
                   beatIndex, stoppedAt, isMounted,
                   soundVars, hookVars, pureVars>>

(* Time passes *)
Advance(steps) ==
    /\ \E d \in steps :
          /\ now + d <= MaxTime
          /\ now' = now + d
    /\ lastOp' = Step("clock")
    /\ UNCHANGED <<samplerVars, latestNotes, updateQueue, metronomeVars, serial,
                   delivered, ticksFired, beatIndex, stoppedAt, isMounted,
                   soundVars, hookVars, pureVars>>

----------------------------------------------------------------------------
(* The metronome *)

\* setInterval returns an id no active timer has
NewTimerId(ts) == CHOOSE i \in 1..(Cardinality(ts) + 1) : \A t \in ts : t.id # i

\* const interval = 60000 / bpm, as setInterval takes it: a whole number of
\* milliseconds; 60000 / 0 is Infinity, which setInterval takes as 0
IntervalMs(b) == IF b = 0 THEN 0 ELSE 60000 \div b

\* A slip: the timer of the run before is left running
MutClearIntervalKeeps(ts, id) == ts

\* clearInterval(metronomeInterval.current)
ClearInterval(ts, id) == {t \in ts : t.id # id}

\* A slip: a start keeps the beat counter of the run before
MutMetronomeEffectNoReset(en, b, sig, acc) ==
    LET cleared == IF metronomeInterval # 0
                   THEN ClearInterval(timers, metronomeInterval) ELSE timers
        id == NewTimerId(cleared)
    IN  IF ~en
        THEN /\ timers' = cleared
             /\ metronomeInterval' = 0
             /\ UNCHANGED <<beatCountRef, beatIndex>>
        ELSE /\ UNCHANGED beatCountRef
             /\ beatIndex' = 0
             /\ timers' = cleared \cup {[id |-> id, interval |-> IntervalMs(b),
                                        beatsPerMeasure |-> BeatsPerMeasure(sig),
                                        accent |-> acc]}
             /\ metronomeInterval' = id

\* The metronome effect for the configuration (en, b, sig, acc): the cleanup
\* of the previous run, then the body.
MetronomeEffect(en, b, sig, acc) ==
    LET cleared == IF metronomeInterval # 0
                   THEN ClearInterval(timers, metronomeInterval) ELSE timers
        id == NewTimerId(cleared)
    IN  IF ~en
        THEN /\ timers' = cleared
             /\ metronomeInterval' = 0
             /\ UNCHANGED <<beatCountRef, beatIndex>>
        ELSE /\ beatCountRef' = 0
             /\ beatIndex' = 0
             /\ timers' = cleared \cup {[id |-> id, interval |-> IntervalMs(b),
                                        beatsPerMeasure |-> BeatsPerMeasure(sig),
                                        accent |-> acc]}
             /\ metronomeInterval' = id

Reconfigure(en, b, sig, acc) ==
    /\ isMounted
    /\ <<en, b, sig, acc>> # <<metronomeEnabled, bpm, timeSignature, accentEnabled>>
    /\ metronomeEnabled' = en
    /\ bpm' = b
    /\ timeSignature' = sig
    /\ accentEnabled' = acc
    /\ MetronomeEffect(en, b, sig, acc)
    /\ lastOp' = Step("config")
    /\ UNCHANGED <<samplerVars, latestNotes, updateQueue, now, serial, delivered,
                   ticksFired, isMounted, soundVars, hookVars, pureVars>>

\* onClick: setMetronomeEnabled(!metronomeEnabled)
ToggleMetronome ==
    /\ Reconfigure(~metronomeEnabled, bpm, timeSignature, accentEnabled)
    /\ UNCHANGED stoppedAt

\* onChange: setBpm(Number(e.target.value))
SetBpm ==
    /\ \E b \in BpmChoices : Reconfigure(metronomeEnabled, b, timeSignature, accentEnabled)
    /\ UNCHANGED stoppedAt

\* onChange: setTimeSignature(e.target.value)
SetTimeSignature ==
    /\ \E sig \in SigChoices : Reconfigure(metronomeEnabled, bpm, sig, accentEnabled)
    /\ UNCHANGED stoppedAt

\* onChange: setAccentEnabled(e.target.checked)
SetAccent ==
    /\ Reconfigure(metronomeEnabled, bpm, timeSignature, ~accentEnabled)
    /\ UNCHANGED stoppedAt

\* A slip: the effect does not depend on playMetronomeTick
MutResoundKeepsTimer(snd, vol) ==
    /\ isMounted
    /\ <<snd, vol>> # <<metronomeSound, metronomeVolume>>
    /\ metronomeSound' = snd
    /\ metronomeVolume' = vol
    /\ lastOp' = [Step("sound") EXCEPT !.count = beatCountRef]
    /\ UNCHANGED <<samplerVars, latestNotes, updateQueue, now, serial, delivered,
                   ticksFired, isMounted, metronomeVars, beatIndex, stoppedAt,
                   hookVars, pureVars>>

\* metronomeSound or metronomeVolume changes: useCallback returns a new
\* playMetronomeTick, a dependency of the metronome effect, which runs its
\* cleanup and its body again
Resound(snd, vol) ==
    /\ isMounted
    /\ <<snd, vol>> # <<metronomeSound, metronomeVolume>>
    /\ metronomeSound' = snd
    /\ metronomeVolume' = vol
    /\ MetronomeEffect(metronomeEnabled, bpm, timeSignature, accentEnabled)
    /\ lastOp' = [Step("sound") EXCEPT !.count = beatCountRef]
    /\ UNCHANGED <<samplerVars, latestNotes, updateQueue, now, serial, delivered,
                   ticksFired, isMounted, metronomeEnabled, bpm, timeSignature,
                   accentEnabled, stoppedAt, hookVars, pureVars>>

\* onChange: setMetronomeSound(e.target.value)
SetSound == \E snd \in SoundChoices : Resound(snd, metronomeVolume)

\* onChange: setMetronomeVolume(Number(e.target.value))
SetVolume == \E vol \in VolumeChoices : Resound(metronomeSound, vol)

\* A slip: the accent does not look at accentEnabled
MutIsAccentAlways(t, count) == JsMod(count, t.beatsPerMeasure) = 0

\* const isAccent = accentEnabled && beatCountRef.current % beatsPerMeasure === 0
IsAccent(t, count) == t.accent /\ JsMod(count, t.beatsPerMeasure) = 0

\* A slip: the beat counter is not wrapped at the end of the measure
MutNextBeatCountNoWrap(count, beatsPerMeasure) == count + 1

\* (beatCountRef.current + 1) % beatsPerMeasure
NextBeatCount(count, beatsPerMeasure) == JsMod(count + 1, beatsPerMeasure)

\* the setInterval callback of timer t
Beat(t) ==
    /\ Len(updateQueue) < MaxPending
    /\ beatCountRef' = NextBeatCount(beatCountRef, t.beatsPerMeasure)
    /\ updateQueue' = Enqueue(updateQueue, TickOp)
    /\ serial' = TickUpdater(serial)
    /\ lastOp' = [Step("tick") EXCEPT !.accent = IsAccent(t, beatCountRef)]
    /\ UNCHANGED <<samplerVars, latestNotes, now, metronomeEnabled, bpm,
                   timeSignature, accentEnabled, timers, metronomeInterval,
                   delivered, stoppedAt, isMounted,
                   soundVars, hookVars, pureVars>>

MetronomeTick ==
    /\ \E t \in timers : Beat(t)
    /\ UNCHANGED <<ticksFired, beatIndex>>

\* in Spec the clock moves a whole throttle interval at a time
AdvanceClock == Advance({MinInterval})

Next ==
    \/ DetectorUpdate
    \/ NoteAppendEffect
    \/ Render
    \/ AdvanceClock
    \/ ToggleMetronome
    \/ SetBpm
    \/ SetTimeSignature
    \/ MetronomeTick

Spec == Init /\ [][Next]_vars

----------------------------------------------------------------------------
(* The sampling controller alone, with every kind of sample *)

ThrottleUpdate ==
    /\ delivered < MaxThrottleSamples
    /\ \E p \in ThrottlePitches, c \in ThrottleClarities : Update(p, c)

\* here the clock also moves by less than the throttle interval
AdvanceClockFine == Advance(TimeSteps)

NextThrottle ==
    \/ ThrottleUpdate
    \/ NoteAppendEffect
    \/ Render
    \/ AdvanceClockFine

SpecThrottle == Init /\ [][NextThrottle]_vars

----------------------------------------------------------------------------
(* A tone that drifts: each sample at most 10 Hz from the one before it,    *)
(* the clock moving by less than the throttle interval.                     *)

DriftPitches == {Num(440), Num(448), Num(456)}
DriftSteps == {5}

DriftUpdate ==
    /\ delivered < MaxDriftSamples
    /\ \E p \in DriftPitches :
          /\ delivered > 0 => Abs(p.val - freq.val) <= JumpThreshold
          /\ Update(p, 100)

DriftClock == Advance(DriftSteps)

NextDrift ==
    \/ DriftUpdate
    \/ NoteAppendEffect
    \/ Render
    \/ DriftClock

SpecDrift == Init /\ [][NextDrift]_vars

----------------------------------------------------------------------------
(* Filling the buffer beyond its capacity: the detector delivers a fixed    *)
(* stream of tones, each more than 10 Hz from the one before, so that every *)
(* sample is appended; the metronome is started once the buffer is about    *)
(* full, and beats.                                                         *)

FillPitch(i) == CASE i % 3 = 0 -> Num(440) [] i % 3 = 1 -> Num(462) [] i % 3 = 2 -> Num(660)
FillClarity(i) == IF i % 2 = 0 THEN 90 ELSE 100

FillUpdate ==
    /\ delivered < Capacity + FillExtra
    /\ Update(FillPitch(delivered), FillClarity(delivered))

FillTick ==
    /\ ticksFired < MaxFillTicks
    /\ ticksFired' = ticksFired + 1
    /\ \E t \in timers : Beat(t)
    /\ UNCHANGED beatIndex

FillToggle ==
    /\ delivered >= Capacity - 1
    /\ ToggleMetronome

FillSetBpm ==
    /\ delivered >= Capacity - 1
    /\ SetBpm

NextFill ==
    \/ FillUpdate
    \/ NoteAppendEffect
    \/ Render
    \/ FillToggle
    \/ FillSetBpm
    \/ FillTick

SpecFill == Init /\ [][NextFill]_vars

----------------------------------------------------------------------------
(* The metronome alone: every control of its configuration, and a bounded   *)
(* number of beats, each counted since the start of the timer that fires it. *)

MetroToggle ==
    /\ Reconfigure(~metronomeEnabled, bpm, timeSignature, accentEnabled)
    /\ stoppedAt' = IF metronomeEnabled THEN beatCountRef ELSE stoppedAt

MetroTick ==
    /\ ticksFired < MaxBeats
    /\ ticksFired' = ticksFired + 1
    /\ beatIndex' = beatIndex + 1
    /\ \E t \in timers : Beat(t)

NextMetro ==
    \/ MetroToggle
    \/ SetBpm
    \/ SetTimeSignature
    \/ SetAccent
    \/ SetSound
    \/ SetVolume
    \/ MetroTick
    \/ Render

SpecMetro == Init /\ [][NextMetro]_vars

----------------------------------------------------------------------------
(* The whole session: samples and beats, a bpm typed into the number input, *)
(* an audio output that can fail, and the unmount of the tuner.             *)

SessionPitches == {Num(440), Num(462)}

\* what can be typed into <input type="number" min={20} max={300}>: the
\* empty field (Number('') is 0) and numbers around the two limits
BpmInputs == {0, 19, 20, 300, 301}

SessionUpdate ==
    /\ delivered < MaxSessionSamples
    /\ \E p \in SessionPitches : Update(p, 100)

\* onChange: setBpm(Number(e.target.value))
TypeBpm ==
    /\ \E b \in BpmInputs : Reconfigure(metronomeEnabled, b, timeSignature, accentEnabled)
    /\ UNCHANGED stoppedAt

SessionTick ==
    /\ ticksFired < MaxSessionTicks
    /\ ticksFired' = ticksFired + 1
    /\ \E t \in timers : Beat(t)
    /\ UNCHANGED beatIndex

\* the setInterval callback of timer t when playMetronomeTick throws (no
\* AudioContext, or a closed one): the statements after the call are skipped
BeatThrows(t) ==
    /\ lastOp' = [Step("tick") EXCEPT !.accent = IsAccent(t, beatCountRef),
                                      !.threw = TRUE]
    /\ UNCHANGED <<samplerVars, latestNotes, updateQueue, now, metronomeVars,
                   serial, delivered, beatIndex, stoppedAt, isMounted, soundVars, hookVars, pureVars>>

SessionTickThrows ==
    /\ ticksFired < MaxSessionTicks
    /\ ticksFired' = ticksFired + 1
    /\ \E t \in timers : BeatThrows(t)

\* A slip: the cleanup of the metronome effect clears nothing
MutUnmountKeepsTimer ==
    /\ isMounted
    /\ isMounted' = FALSE
    /\ notePending' = FALSE
    /\ updateQueue' = <<>>
    /\ pollTimer' = FALSE
    /\ audioContext' = IF audioContext = "open" THEN "closed" ELSE audioContext
    /\ lastOp' = Step("unmount")
    /\ UNCHANGED <<freq, clarity, addNoteRef, lastFreqRef, latestNotes, now,
                   metronomeVars, serial, delivered, ticksFired, beatIndex,
                   stoppedAt, soundVars, micPending, pureVars>>

\* The tuner is unmounted. usePitchDetection's cleanup sets isMounted to false
\* and clears the poll's timeout; the metronome effect's cleanup clears the
\* interval; React drops the effects and the updaters still pending.
Unmount ==
    /\ isMounted
    /\ isMounted' = FALSE
    /\ notePending' = FALSE
    /\ updateQueue' = <<>>
    /\ timers' = IF metronomeInterval # 0
                 THEN ClearInterval(timers, metronomeInterval) ELSE timers
    /\ metronomeInterval' = 0
    /\ pollTimer' = FALSE
    /\ audioContext' = IF audioContext = "open" THEN "closed" ELSE audioContext
    /\ lastOp' = Step("unmount")
    /\ UNCHANGED <<freq, clarity, addNoteRef, lastFreqRef, latestNotes, now,
                   metronomeEnabled, bpm, timeSignature, accentEnabled,
                   beatCountRef, serial, delivered, ticksFired, beatIndex,
                   stoppedAt, soundVars, micPending, pureVars>>

NextSession ==
    \/ SessionUpdate
    \/ NoteAppendEffect
    \/ Render
    \/ ToggleMetronome
    \/ TypeBpm
    \/ SessionTick
    \/ SessionTickThrows
    \/ Unmount

SpecSession == Init /\ [][NextSession]_vars

----------------------------------------------------------------------------
(* The life of the pitch-detection session: setup waits for the microphone, *)
(* opens the AudioContext and starts the poll; the cleanup of the effect can *)
(* run before or after the microphone is granted.                           *)

\* the state after the mount: setup has called getUserMedia and awaits it
HookPending ==
    /\ micPending = TRUE
    /\ audioContext = "none"
    /\ pollTimer = FALSE

InitLifecycle ==
    /\ TunerMounted
    /\ HookPending
    /\ ClassifierIdle
    /\ GraderIdle
    /\ StaffIdle
    /\ LeftIdle
    /\ RoundIdle
    /\ OriginalIdle

\* getUserMedia resolves and setup resumes: it creates the AudioContext,
\* stores it in audioContextRef and calls update(), which returns at once
\* when the cleanup has run, and otherwise takes the first sample and
\* schedules itself
MicGranted ==
    /\ micPending
    /\ micPending' = FALSE
    /\ audioContext' = "open"
    /\ IF isMounted
       THEN /\ \E p \in SessionPitches :
                  /\ freq' = p
                  /\ clarity' = 100
                  /\ notePending' = DepsChanged(p, 100)
            /\ delivered' = delivered + 1
            /\ pollTimer' = TRUE
            /\ lastOp' = Step("update")
       ELSE /\ lastOp' = Step("setup")
            /\ UNCHANGED <<freq, clarity, notePending, delivered, pollTimer>>
    /\ UNCHANGED <<latestNotes, updateQueue, addNoteRef, lastFreqRef, now,
                   metronomeVars, serial, ticksFired, beatIndex, stoppedAt, isMounted,
                   soundVars, pureVars>>

\* getUserMedia rejects: setup ends there
MicDenied ==
    /\ micPending
    /\ micPending' = FALSE
    /\ lastOp' = Step("denied")
    /\ UNCHANGED <<samplerVars, latestNotes, updateQueue, now, metronomeVars,
                   serial, delivered, ticksFired, beatIndex, stoppedAt, isMounted,
                   soundVars, audioContext, pollTimer, pureVars>>

\* the timeout of update fires
LifecyclePoll ==
    /\ pollTimer
    /\ delivered < MaxLifecycleSamples
    /\ \E p \in SessionPitches : Update(p, 100)

LifecycleTick ==
    /\ ticksFired < MaxLifecycleTicks
    /\ ticksFired' = ticksFired + 1
    /\ \E t \in timers : Beat(t)
    /\ UNCHANGED beatIndex

NextLifecycle ==
    \/ MicGranted
    \/ MicDenied
    \/ LifecyclePoll
    \/ NoteAppendEffect
    \/ Render
    \/ ToggleMetronome
    \/ LifecycleTick
    \/ Unmount

SpecLifecycle == InitLifecycle /\ [][NextLifecycle]_vars

----------------------------------------------------------------------------
(* The classifier on its own: frequencyToNote, noteAccuracy and             *)
(* accuracyColor applied to one frequency and to the same frequency k       *)
(* octaves higher.                                                          *)

ClassifyInputs == {Null, NaN, Num(0), Num(-440)} \cup {Num(hz) : hz \in ClassifyHz}

InitClassify ==
    /\ InitTuner
    /\ cIn \in ClassifyInputs
    /\ cShift \in 0..MaxShift
    /\ (cIn.tag = "num" /\ cIn.val > 0) => cIn.val * Pow2(cShift) \in ClassifyHz
    /\ cOut = NoResult
    /\ GraderIdle
    /\ StaffIdle
    /\ LeftIdle
    /\ RoundIdle
    /\ OriginalIdle

Classify ==
    /\ ~cOut.done
    /\ cOut' = ClassifyResult(cIn, cShift)
    /\ UNCHANGED <<samplerVars, latestNotes, updateQueue, now, metronomeVars,
                   serial, delivered, ticksFired, lastOp, beatIndex, stoppedAt,
                   isMounted, soundVars, hookVars, roundVars, sOrig,
                   cIn, cShift, gIn, gOut, staffVars>>

NextClassify == Classify

SpecClassify == InitClassify /\ [][NextClassify]_vars

----------------------------------------------------------------------------
(* The tier thresholds on their own, applied to the magnitude of a          *)
(* deviation and of its negation.                                           *)

InitGrade ==
    /\ InitTuner
    /\ ClassifierIdle
    /\ gIn \in (-MaxCents)..MaxCents
    /\ gOut = NoGrade
    /\ StaffIdle
    /\ LeftIdle
    /\ RoundIdle
    /\ OriginalIdle

Grade ==
    /\ ~gOut.done
    /\ gOut' = [done |-> TRUE, tier |-> TierOf(Abs(gIn)), mirror |-> TierOf(Abs(-gIn))]
    /\ UNCHANGED <<samplerVars, latestNotes, updateQueue, now, metronomeVars,
                   serial, delivered, ticksFired, lastOp, beatIndex, stoppedAt,
                   isMounted, soundVars, hookVars, roundVars, sOrig,
                   cIn, cShift, cOut, gIn, staffVars>>

NextGrade == Grade

SpecGrade == InitGrade /\ [][NextGrade]_vars

----------------------------------------------------------------------------
(* The rounding on its own: a frequency given by its offset from A4 in      *)
(* cents, halves of a semitone included, and what frequencyToNote,          *)
(* noteAccuracy and accuracyColor derive from Math.round of it.             *)

InitRound ==
    /\ InitTuner
    /\ ClassifierIdle
    /\ GraderIdle
    /\ StaffIdle
    /\ LeftIdle
    /\ rIn \in (-MaxOffset)..MaxOffset
    /\ rOut = NoRound
    /\ OriginalIdle

RoundOffset ==
    /\ ~rOut.done
    /\ rOut' = [done |-> TRUE,
                nearest |-> MathRound(rIn),
                pitchClass |-> NoteName(NoteIndexAt(rIn)),
                octave |-> Octave(NoteIndexAt(rIn)),
                cents |-> CentsAt(rIn),
                color |-> TierOf(Abs(CentsAt(rIn)))]
    /\ UNCHANGED <<samplerVars, latestNotes, updateQueue, now, metronomeVars,
                   serial, delivered, ticksFired, lastOp, beatIndex, stoppedAt,
                   isMounted, soundVars, hookVars, rIn, sOrig,
                   cIn, cShift, cOut, gIn, gOut, staffVars>>

NextRound == RoundOffset

SpecRound == InitRound /\ [][NextRound]_vars

----------------------------------------------------------------------------
(* The staff on its own: generateStaffConfig for a range, and one entry of  *)
(* the buffer drawn on it.                                                  *)

\* the presets, ranges picked in the two selects of the custom range, and
\* ranges the props can hold that are inverted, empty or not natural notes
StaffRanges ==
    {NOTE_RANGES.violin, NOTE_RANGES.piano, NOTE_RANGES.guitar, NOTE_RANGES.bass,
     NOTE_RANGES.custom,
     [low |-> Note("D", "", 4), high |-> Note("C", "", 5)],
     [low |-> Note("C", "", 4), high |-> Note("D", "", 4)],
     [low |-> Note("E", "", 7), high |-> Note("G", "", 3)],
     [low |-> Note("G", "", 3), high |-> Note("G", "", 3)],
     [low |-> Note("G", "#", 3), high |-> Note("E", "", 7)],
     [low |-> Note("C", "", 3), high |-> Note("E", "", 9)]}

\* the labels of the tuner, and the five flats
StaffNotes ==
    {Note(l, "", o) : l \in Letters, o \in 0..MaxOctave}
    \cup {Note(l, "#", o) : l \in {"C", "D", "F", "G", "A"}, o \in 0..MaxOctave}
    \cup {Note(l, "b", o) : l \in {"D", "E", "G", "A", "B"}, o \in 0..MaxOctave}

StaffClarities == {70, 90}

InitStaff ==
    /\ InitTuner
    /\ ClassifierIdle
    /\ GraderIdle
    /\ sIn \in [range : StaffRanges, note : StaffNotes, clarity : StaffClarities]
    /\ sOut = NoStaff
    /\ LeftIdle
    /\ RoundIdle
    /\ OriginalIdle

\* MusicalStaff renders sIn.note on the staff of sIn.range
DrawNote ==
    /\ ~sOut.done
    /\ LET config == generateStaffConfig(sIn.range.low, sIn.range.high)
           position == getNotePosition(config, sIn.note)
       IN  sOut' = [done |-> TRUE, low |-> config.low, high |-> config.high,
                    totalNotes |-> config.totalNotes,
                    staffLines |-> config.staffLines,
                    notePositions |-> config.notePositions,
                    position |-> position,
                    sharpPosition |->
                        IF sIn.note.acc = "b"
                        THEN getNotePosition(config,
                                Note(FLAT_TO_SHARP_MAP(sIn.note.letter), "#", sIn.note.octave))
                        ELSE Undefined,
                    rendered |-> Rendered(config, position, sIn.clarity)]
    /\ UNCHANGED <<samplerVars, latestNotes, updateQueue, now, metronomeVars,
                   serial, delivered, ticksFired, lastOp, beatIndex, stoppedAt,
                   isMounted, soundVars, hookVars, roundVars, sOrig,
                   cIn, cShift, cOut, gIn, gOut, sIn, lIn, lOut>>

NextStaff == DrawNote

SpecStaff == InitStaff /\ [][NextStaff]_vars

----------------------------------------------------------------------------
(* The two staff generators side by side, for every pair of natural notes   *)
(* of the table as the low and the high note.                               *)

NaturalPairs ==
    {[low |-> NATURAL_NOTES(i), high |-> NATURAL_NOTES(j)] :
        i \in 0..(7 * 9 - 1), j \in 0..(7 * 9 - 1)}

InitPair ==
    /\ InitTuner
    /\ ClassifierIdle
    /\ GraderIdle
    /\ sIn \in [range : NaturalPairs, note : {Note("", "", 0)}, clarity : {0}]
    /\ sOut = NoStaff
    /\ LeftIdle
    /\ RoundIdle
    /\ OriginalIdle

\* the staff of sIn.range as each of the two generators makes it
StaffOf(config) ==
    [NoStaff EXCEPT !.done = TRUE, !.low = config.low, !.high = config.high,
                    !.totalNotes = config.totalNotes,
                    !.staffLines = config.staffLines,
                    !.notePositions = config.notePositions]

GeneratePair ==
    /\ ~sOut.done
    /\ sOut' = StaffOf(generateStaffConfig(sIn.range.low, sIn.range.high))
    /\ sOrig' = StaffOf(generateStaffConfigOriginal(sIn.range.low, sIn.range.high))
    /\ UNCHANGED <<samplerVars, latestNotes, updateQueue, now, metronomeVars,
                   serial, delivered, ticksFired, lastOp, beatIndex, stoppedAt,
                   isMounted, soundVars, hookVars, roundVars,
                   cIn, cShift, cOut, gIn, gOut, sIn, lIn, lOut>>

NextPair == GeneratePair

SpecPair == InitPair /\ [][NextPair]_vars

----------------------------------------------------------------------------
(* getNoteLeft on its own, for an entry of a buffer and for the newest      *)
(* entry of the same buffer.                                                *)

LeftTotals == {1, 2, 3, Capacity \div 2, Capacity - 1, Capacity} \cup
              {Capacity + k : k \in 1..MaxOver}

InitLeft ==
    /\ InitTuner
    /\ ClassifierIdle
    /\ GraderIdle
    /\ StaffIdle
    /\ RoundIdle
    /\ OriginalIdle
    /\ lIn \in {in \in [idx : 0..(Capacity + MaxOver), total : LeftTotals] :
                    in.idx < in.total}
    /\ lOut = NoLeft

PlaceNote ==
    /\ ~lOut.done
    /\ lOut' = [done |-> TRUE, left |-> getNoteLeft(lIn.idx, lIn.total),
                newest |-> getNoteLeft(lIn.total - 1, lIn.total)]
    /\ UNCHANGED <<samplerVars, latestNotes, updateQueue, now, metronomeVars,
                   serial, delivered, ticksFired, lastOp, beatIndex, stoppedAt,
                   isMounted, soundVars, hookVars, roundVars, sOrig,
                   cIn, cShift, cOut, gIn, gOut, sIn, sOut, lIn>>

NextLeft == PlaceNote

SpecLeft == InitLeft /\ [][NextLeft]_vars

----------------------------------------------------------------------------
(* One stream end to end: four samples of clarity 1.0, one every 20 ms,     *)
(* into an empty session. The effect runs at any time between the sample it *)
(* was scheduled by and the next one; the metronome may be switched on and  *)
(* beat meanwhile.                                                          *)

StreamPitches == <<Num(440), Num(440), Num(440), Num(660)>>
StreamSpacing == 20

\* the time the sample after `delivered` samples arrives at
StreamDue == StartTime + StreamSpacing * delivered

\* the clock moves a quarter of the spacing at a time, up to the next sample
StreamStep == StreamSpacing \div 4

StreamUpdate ==
    /\ delivered < Len(StreamPitches)
    /\ now = StreamDue
    /\ Update(StreamPitches[delivered + 1], 100)

StreamClock ==
    /\ delivered >= 1
    /\ now < StartTime + StreamSpacing * Min(delivered, Len(StreamPitches))
    /\ now' = Min(now + StreamStep,
                  StartTime + StreamSpacing * Min(delivered, Len(StreamPitches)))
    /\ lastOp' = Step("clock")
    /\ UNCHANGED <<samplerVars, latestNotes, updateQueue, metronomeVars, serial,
                   delivered, ticksFired, beatIndex, stoppedAt, isMounted,
                   soundVars, hookVars, pureVars>>

StreamTick ==
    /\ ticksFired < MaxStreamTicks
    /\ ticksFired' = ticksFired + 1
    /\ \E t \in timers : Beat(t)
    /\ UNCHANGED beatIndex

NextStream ==
    \/ StreamUpdate
    \/ NoteAppendEffect
    \/ Render
    \/ StreamClock
    \/ ToggleMetronome
    \/ StreamTick

SpecStream == Init /\ [][NextStream]_vars

----------------------------------------------------------------------------
(* Claims about the history buffer *)

\* C1: in every reachable state, after any sequence and interleaving of
\* sample appends and metronome tick marks, the history buffer holds at most
\* capacity (250) observations.
C1_LengthAtMostCapacity == Len(latestNotes) <= 250

\* a full buffer that has been appended to and tick-marked while full
C1_Witness ==
    /\ Len(latestNotes) = 250
    /\ delivered > 250
    /\ ticksFired > 0
    /\ updateQueue = <<>>
    /\ ~notePending

\* the number of samples of the fill stream applied to latestNotes so far
FillApplied == delivered - (IF notePending THEN 1 ELSE 0) - NumAppends(updateQueue)

\* the observation the i-th sample of the fill stream (from 0) is appended as
FillObs(i) == [note |-> frequencyToNote(FillPitch(i)), freq |-> FillPitch(i).val,
               clarity |-> FillClarity(i)]

\* the stream repeats after six samples
FillObsCycle == [k \in 0..5 |-> FillObs(k)]

\* C2: appending capacity + k observations (k >= 0) to an empty buffer leaves
\* exactly capacity entries: the capacity most recently appended
\* observations, in the order they were appended.
C2_KeepsMostRecent ==
    FillApplied >= Capacity =>
        /\ Len(latestNotes) = Capacity
        /\ \A j \in 1..Capacity :
              LET o == latestNotes[j]
              IN  [note |-> o.note, freq |-> o.freq, clarity |-> o.clarity]
                    = FillObsCycle[(FillApplied - Capacity + j - 1) % 6]

\* capacity + FillExtra observations have been appended
C2_Witness ==
    /\ FillApplied = Capacity + FillExtra
    /\ FillExtra > 0
    /\ latestNotes[1].freq = FillPitch(FillExtra).val
    /\ latestNotes[Capacity].freq = FillPitch(Capacity + FillExtra - 1).val

\* C3: append and markLatestAsTick are atomic with respect to each other:
\* whatever the interleaving of sample appends and beats, once the queued
\* updaters are rendered the buffer is what applying the operations one at a
\* time, in delivery order, gives; no append and no tick mark is lost.
C3_Serialized == updateQueue = <<>> => latestNotes = serial

\* one render applied an append and the beat that followed it
C3_Witness ==
    /\ lastOp.op = "render"
    /\ lastOp.applied = 2
    /\ lastOp.ticks = 1
    /\ Len(latestNotes) >= 2
    /\ latestNotes[Len(latestNotes)].isTick

OnlyTicks(q) == q # <<>> /\ NumTicks(q) = Len(q)

\* C4: markLatestAsTick on an empty buffer is a no-op (the buffer stays
\* empty); after exactly one append it sets isTick on that one entry.
C4_TickOnEmptyOrSingle ==
    [][lastOp'.op = "render" =>
         /\ (OnlyTicks(updateQueue) /\ latestNotes = <<>>) => latestNotes' = <<>>
         /\ (OnlyTicks(updateQueue) /\ Len(latestNotes) = 1) =>
                latestNotes' = <<[latestNotes[1] EXCEPT !.isTick = TRUE]>>
         /\ (/\ latestNotes = <<>>
             /\ Len(updateQueue) = 2
             /\ updateQueue[1].op = "append"
             /\ updateQueue[2].op = "tick") =>
                latestNotes' = <<[updateQueue[1].obs EXCEPT !.isTick = TRUE]>>
      ]_vars

\* beats on an empty buffer have been rendered, and the buffer is still empty
C4_Witness ==
    /\ lastOp.op = "render"
    /\ lastOp.ticks = 2
    /\ lastOp.applied = 2
    /\ latestNotes = <<>>
    /\ serial = <<>>

\* C5: markLatestAsTick on a non-empty buffer changes only the isTick flag of
\* the tail entry: the length, the order, every other entry, and the tail's
\* note, frequency and clarity are unchanged.
C5_TickChangesTailFlagOnly ==
    [][(lastOp'.op = "render" /\ OnlyTicks(updateQueue) /\ latestNotes # <<>>) =>
         LET n == Len(latestNotes)
         IN  /\ Len(latestNotes') = n
             /\ \A i \in 1..(n - 1) : latestNotes'[i] = latestNotes[i]
             /\ latestNotes'[n].note = latestNotes[n].note
             /\ latestNotes'[n].freq = latestNotes[n].freq
             /\ latestNotes'[n].clarity = latestNotes[n].clarity
             /\ latestNotes'[n].isTick
      ]_vars

\* a beat was rendered on a buffer of several entries, the older unmarked
C5_Witness ==
    /\ lastOp.op = "render"
    /\ lastOp.applied = lastOp.ticks
    /\ lastOp.ticks >= 1
    /\ Len(latestNotes) >= 2
    /\ latestNotes[Len(latestNotes)].isTick
    /\ ~latestNotes[1].isTick

\* C6: isTick is monotonic per observation: an observation of the buffer
\* that has isTick = TRUE keeps it in every later state until it is evicted,
\* whatever appends, beats, metronome stops and restarts or configuration
\* changes follow.
C6_TickMonotonic ==
    [][LET evicted == IF lastOp'.op = "render"
                      THEN Len(latestNotes) + NumAppends(updateQueue) - Len(latestNotes')
                      ELSE 0
       IN  \A i \in 1..Len(latestNotes) :
              (latestNotes[i].isTick /\ i - evicted >= 1) =>
                 /\ i - evicted <= Len(latestNotes')
                 /\ latestNotes'[i - evicted].isTick
                 /\ latestNotes'[i - evicted].freq = latestNotes[i].freq
      ]_vars

\* a full buffer where a marked observation has moved down from the tail,
\* after a later beat and with the metronome stopped again
C6_Witness ==
    /\ Len(latestNotes) = Capacity
    /\ delivered > Capacity
    /\ ticksFired = 2
    /\ ~metronomeEnabled
    /\ \E i \in 1..(Capacity - 2) :
          latestNotes[i].isTick /\ ~latestNotes[i + 1].isTick

----------------------------------------------------------------------------
(* Claims about the sampling and throttle controller *)

\* a step of the note-append effect
EffectStep == notePending /\ ~notePending'
\* a step of the detector's poll
UpdateStep == delivered' = delivered + 1
\* the step hands an append to the buffer
Appends == /\ Len(updateQueue') = Len(updateQueue) + 1
           /\ updateQueue'[Len(updateQueue')].op = "append"

Valid(f) == f.tag = "num" /\ f.val > 0
Malformed(f) == f.tag = "NaN" \/ (f.tag = "num" /\ f.val <= 0)

\* C7: a sample with a valid frequency is appended if and only if
\* abs(frequency - lastAppendedFrequency) > 10 Hz or the time since the last
\* append is >= 16 ms; a change of exactly 10 Hz is no jump, and exactly
\* 16 ms allows the append.
C7_ThrottleRule ==
    [][(EffectStep /\ Valid(freq)) =>
         /\ Appends <=> (Abs(freq.val - lastFreqRef) > 10 \/ now - addNoteRef >= 16)
         /\ Appends => (addNoteRef' = now /\ lastFreqRef' = freq.val)
      ]_vars

\* a sample 10 Hz from the last appended one, 15 ms after it, was dropped
C7_Witness ==
    /\ lastOp.op = "dropped"
    /\ lastOp.freqChange = 10
    /\ lastOp.timeSince = 15
    /\ Abs(freq.val - lastFreqRef) = 10
    /\ now - addNoteRef = 15

\* C8 (as claimed): every sample with a valid frequency delivered at least
\* 16 ms after the last append is appended, for any frequency change,
\* including a change of 0 with unchanged clarity: the poll schedules the
\* effect, and the effect appends.
C8_StableToneAppended ==
    [][/\ (UpdateStep /\ Valid(freq') /\ now - addNoteRef >= 16) => notePending'
       /\ (EffectStep /\ Valid(freq) /\ now - addNoteRef >= 16) => Appends
      ]_vars

\* C9: a sample whose frequency is null is rejected: the buffer, the
\* last-appended timestamp and the last-appended frequency are unchanged.
C9_NullRejected ==
    [][((UpdateStep /\ freq' = Null) \/ (EffectStep /\ freq = Null)) =>
         UNCHANGED <<latestNotes, updateQueue, addNoteRef, lastFreqRef>>
      ]_vars

\* a null sample was rejected after an earlier sample had been appended
C9_Witness ==
    /\ lastOp.op = "rejected"
    /\ freq = Null
    /\ Len(latestNotes) >= 1
    /\ addNoteRef > 0
    /\ lastFreqRef > 0

\* C10 (as claimed): a malformed sample (frequency NaN, zero or negative) is
\* treated as no signal: it is never appended to the buffer and never updates
\* the throttle state.
C10_MalformedRejected ==
    [][((UpdateStep /\ Malformed(freq')) \/ (EffectStep /\ Malformed(freq))) =>
         UNCHANGED <<latestNotes, updateQueue, addNoteRef, lastFreqRef>>
      ]_vars

\* the label section 4.1 gives the tones of SpecThrottle: 440, 442 and 450 Hz
\* are within half a semitone of A4 = 442 Hz, 462 Hz is nearest to A#4
ExpectedLabel(hz) == IF hz = 462 THEN "A#4" ELSE "A4"

\* C11: every observation appended by the sampling controller enters the
\* buffer with isTick not set, with the sample's frequency and clarity, and
\* with the note label that classifying that same frequency gives.
C11_AppendedObservation ==
    [][(EffectStep /\ Appends) =>
         LET o == updateQueue'[Len(updateQueue')].obs
         IN  /\ ~o.isTick
             /\ o.freq = freq.val
             /\ o.clarity = clarity
             /\ o.note = frequencyToNote(freq)
             /\ Valid(freq) => o.note = ExpectedLabel(freq.val)
      ]_vars

\* a 462 Hz sample of clarity 90 was appended after a 440 Hz one of clarity 100
C11_Witness ==
    /\ lastOp.op = "appended"
    /\ Len(latestNotes) = 1
    /\ latestNotes[1] = [note |-> "A4", freq |-> 440, clarity |-> 100, isTick |-> FALSE]
    /\ Len(updateQueue) = 1
    /\ updateQueue[1].obs = [note |-> "A#4", freq |-> 462, clarity |-> 90, isTick |-> FALSE]

----------------------------------------------------------------------------
(* Claims about the classifier and the grader *)

Classified == cOut.done /\ Valid(cIn)

\* C12: for every positive frequency, also one below C0 whose absolute
\* semitone index is negative, the pitch-class index lies in 0..11 and the
\* pitch class of the label is one of the twelve names of NOTES.
C12_PitchClassInRange ==
    Classified =>
        /\ cOut.parts.pcIndex \in 0..11
        /\ \E i \in 1..12 : cOut.parts.pc = NOTES[i]

\* C13: a frequency and the same frequency k octaves higher get the same
\* pitch class and the same cents, and the octave number of the higher one
\* is larger by exactly k.
C13_OctaveTransposition ==
    Classified =>
        /\ cOut.parts2.pc = cOut.parts.pc
        /\ cOut.parts2.cents = cOut.parts.cents
        /\ cOut.parts2.octave = cOut.parts.octave + cShift

\* C14: the reference frequency, 442 Hz, is classified as A4 with a
\* deviation of exactly 0 cents.
C14_ReferenceIsA4 ==
    (cOut.done /\ cIn = Num(A4)) =>
        /\ cOut.label = "A4"
        /\ cOut.parts.cents = 0
        /\ cOut.accuracy = "0.0"

C14_Witness == cOut.done /\ cIn = Num(A4) /\ cOut.label = "A4"

\* C15: for every positive frequency the signed deviation in cents is at
\* least -600 and less than 600.
C15_CentsInRange ==
    Classified => (cOut.parts.cents >= -600 /\ cOut.parts.cents < 600)

C15_Witness ==
    /\ Classified
    /\ cIn = Num(8)
    /\ cOut.parts.cents = -45
    /\ cOut.accuracy = "-45.0"

\* C16: a frequency that is null, zero or negative is classified as the
\* no-pitch sentinel "--", by frequencyToNote and by noteAccuracy.
C16_NonPositiveIsSentinel ==
    (cOut.done /\ (cIn = Null \/ (cIn.tag = "num" /\ cIn.val <= 0))) =>
        /\ cOut.label = "--"
        /\ cOut.accuracy = "--"

\* the five tiers, as the classes accuracyColor returns
Unknown == "bg-gray-400"
Exact == "bg-green-500"
Close == "bg-yellow-400"
Off == "bg-orange-400"
Far == "bg-red-500"

\* C17: the tier depends on the magnitude of the deviation only: below 5
\* cents Exact, from 5 and below 15 Close, from 15 and below 30 Off, from 30
\* Far; 5, 15 and 30 themselves fall in the higher tier, and a deviation and
\* its negation get the same tier.
C17_Tiers ==
    gOut.done =>
        LET a == Abs(gIn)
        IN  /\ (a < 5) = (gOut.tier = Exact)
            /\ (5 <= a /\ a < 15) = (gOut.tier = Close)
            /\ (15 <= a /\ a < 30) = (gOut.tier = Off)
            /\ (a >= 30) = (gOut.tier = Far)
            /\ gOut.mirror = gOut.tier

C17_Witness == gOut.done /\ gIn = -30 /\ gOut.tier = Far /\ gOut.mirror = Far

\* C18: a frequency that is null, not a number, zero or negative is graded
\* Unknown, a tier different from Exact, Close, Off and Far.
C18_InvalidIsUnknown ==
    (cOut.done /\ (cIn = Null \/ Malformed(cIn))) =>
        /\ cOut.color = Unknown
        /\ cOut.color \notin {Exact, Close, Off, Far}

----------------------------------------------------------------------------
(* Claims about the metronome *)

C20_RestartResets ==
    [][/\ (~metronomeEnabled /\ metronomeEnabled') => beatCountRef' = 0
       /\ (metronomeEnabled /\ accentEnabled /\ beatIndex = 0 /\ beatIndex' = 1)
             => lastOp'.accent]_vars

\* stopped in the middle of a measure, started again, and the first beat fired
C20_Witness ==
    /\ stoppedAt = 2
    /\ metronomeEnabled
    /\ accentEnabled
    /\ lastOp.op = "tick"
    /\ beatIndex = 1
    /\ lastOp.accent

\* the timer a run of the effect with the current configuration starts
ConfiguredTimer(id) ==
    [id |-> id, interval |-> IntervalMs(bpm),
     beatsPerMeasure |-> BeatsPerMeasure(timeSignature), accent |-> accentEnabled]

\* C21: at most one metronome timer is active; a change of bpm, time
\* signature or accent while running leaves exactly one timer, with the new
\* parameters and none with the old ones, and the beats of the new timer are
\* counted from 0: its first beat is fired once, not skipped and not doubled.
C21_OneTimer ==
    /\ Cardinality(timers) <= 1
    /\ metronomeEnabled => timers = {ConfiguredTimer(metronomeInterval)}
    /\ ~metronomeEnabled => timers = {}
    /\ (metronomeEnabled /\ lastOp.op = "config") => (beatIndex = 0 /\ beatCountRef = 0)
    /\ (metronomeEnabled /\ lastOp.op = "tick")
         => (beatIndex >= 1 /\ beatCountRef = beatIndex % BeatsPerMeasure(timeSignature))

\* running at 120 bpm in 3/4 after two changes, and the first beat has fired
C21_Witness ==
    /\ metronomeEnabled
    /\ bpm = 120
    /\ timeSignature = "3/4"
    /\ ticksFired >= 3
    /\ lastOp.op = "tick"
    /\ beatIndex = 1
    /\ \E t \in timers : t.interval = 500 /\ t.beatsPerMeasure = 3

\* a timer callback in which playMetronomeTick threw
ThrowingBeat == lastOp'.op = "tick" /\ lastOp'.threw /\ ticksFired' = ticksFired + 1

\* C22: when emitting the tick sound fails, the beat counter is still
\* stepped on that beat, the tick-mark updater is still handed to the
\* buffer, and the timer stays active.
C22_FailureSwallowed ==
    [][ThrowingBeat =>
         /\ beatCountRef' = (beatCountRef + 1) % BeatsPerMeasure(timeSignature)
         /\ updateQueue' = Enqueue(updateQueue, TickOp)
         /\ timers' = timers]_vars

\* C23: the bpm of the configuration is always between 20 and 300, whatever
\* is typed into the input, and the interval of every timer is positive.
C23_BpmInRange ==
    /\ bpm >= 20
    /\ bpm <= 300
    /\ \A t \in timers : t.interval > 0

\* C24: after the unmount no sample is delivered or appended and no beat
\* fires: no timer is left, nothing is pending, and no step changes the
\* buffer or anything else.
C24_TeardownStopsAll ==
    /\ [](~isMounted => (timers = {} /\ ~notePending /\ updateQueue = <<>>))
    /\ [][~isMounted =>
            /\ latestNotes' = latestNotes
            /\ delivered' = delivered
            /\ ticksFired' = ticksFired
            /\ UNCHANGED vars]_vars

\* unmounted while the metronome was running and samples were still to come,
\* with observations in the buffer and beats fired
C24_Witness ==
    /\ ~isMounted
    /\ metronomeEnabled
    /\ ticksFired >= 1
    /\ ticksFired < MaxSessionTicks
    /\ delivered < MaxSessionSamples
    /\ Len(latestNotes) >= 1
    /\ latestNotes[Len(latestNotes)].isTick

----------------------------------------------------------------------------
(* Claims about the staff *)

\* the pitch of a note name, in semitones above C0
Semitone(l) ==
    CASE l = "C" -> 0 [] l = "D" -> 2 [] l = "E" -> 4 [] l = "F" -> 5
      [] l = "G" -> 7 [] l = "A" -> 9 [] l = "B" -> 11
PitchNumber(n) ==
    n.octave * 12 + Semitone(n.letter)
        + (IF n.acc = "#" THEN 1 ELSE IF n.acc = "b" THEN -1 ELSE 0)

\* the range handed to the staff is one generateStaffConfig accepts
ValidRange(r) ==
    /\ NaturalIndexOf(r.low) # -1
    /\ NaturalIndexOf(r.high) # -1
    /\ NaturalIndexOf(r.low) < NaturalIndexOf(r.high)

\* the drawn note lies below the low or above the high note of the staff
OutsideRange ==
    \/ PitchNumber(sIn.note) < PitchNumber(sOut.low)
    \/ PitchNumber(sIn.note) > PitchNumber(sOut.high)

\* C25: a note outside the active range gets no position and is not drawn:
\* it is given neither the position of another note nor a default one.
C25_OutOfRangeInvalid ==
    (sOut.done /\ OutsideRange) =>
        /\ sOut.position = Undefined
        /\ ~sOut.rendered

\* C26: for a valid range the staff has one line for each natural note of
\* the range, the lowest at 90 and the highest at 10, evenly spaced and
\* strictly decreasing as the pitch rises, and every position assigned, of a
\* natural or of a sharp, lies between 0 and 100.
C26_NaturalsEvenlySpaced ==
    (sOut.done /\ ValidRange(sIn.range)) =>
        LET n == sOut.totalNotes
            unit == Scale(n)
            lines == sOut.staffLines
        IN  /\ n = NaturalIndexOf(sIn.range.high) - NaturalIndexOf(sIn.range.low) + 1
            /\ Len(lines) = n
            /\ \A i \in 1..n :
                  /\ lines[i].note = NATURAL_NOTES(NaturalIndexOf(sIn.range.low) + i - 1)
                  /\ sOut.notePositions[lines[i].note] = lines[i].position
            /\ lines[1].position = 90 * unit
            /\ lines[n].position = 10 * unit
            /\ \A i \in 1..(n - 1) :
                  /\ lines[i].position > lines[i + 1].position
                  /\ (lines[i].position - lines[i + 1].position) * (n - 1) = 80 * unit
            /\ \A k \in DOMAIN sOut.notePositions :
                  sOut.notePositions[k] >= 0 /\ sOut.notePositions[k] <= 100 * unit

\* the violin range: 27 lines from G3 at 90 to E7 at 10
C26_Witness ==
    /\ sOut.done
    /\ sIn.range = NOTE_RANGES.violin
    /\ sOut.totalNotes = 27
    /\ sOut.staffLines[1] = [note |-> Note("G", "", 3), position |-> 90 * 52]
    /\ sOut.staffLines[27] = [note |-> Note("E", "", 7), position |-> 10 * 52]

\* the sharp drawn lies between two naturals of the staff
SharpBetweenLines ==
    /\ sOut.done
    /\ sIn.note.acc = "#"
    /\ Note(sIn.note.letter, "", sIn.note.octave) \in DOMAIN sOut.notePositions
    /\ getNextNaturalNote(Note(sIn.note.letter, "", sIn.note.octave))
           \in DOMAIN sOut.notePositions

\* C27: a sharp whose two neighbouring naturals are both in the active range
\* is drawn at exactly the average of the positions of the two.
C27_SharpAtMidpoint ==
    SharpBetweenLines =>
        LET below == Note(sIn.note.letter, "", sIn.note.octave)
            above == getNextNaturalNote(below)
        IN  2 * sOut.position = sOut.notePositions[below] + sOut.notePositions[above]

\* A#4 on the violin staff, half a step of 160 / 2 above the line of A4
C27_Witness ==
    /\ SharpBetweenLines
    /\ sIn.range = NOTE_RANGES.violin
    /\ sIn.note = Note("A", "#", 4)
    /\ sOut.position = sOut.notePositions[Note("A", "", 4)] - 80
    /\ sOut.position = sOut.notePositions[Note("B", "", 4)] + 80

\* C28: a flat (Db, Eb, Gb, Ab, Bb) is drawn where the sharp it is spelled
\* for (C#, D#, F#, G#, A# of the same octave) is drawn, on every staff.
C28_FlatAsSharp ==
    (sOut.done /\ sIn.note.acc = "b") => sOut.position = sOut.sharpPosition

\* C29: for a range that is inverted, empty or has an endpoint that is not
\* a natural note of the table, the staff configuration is exactly the one
\* of the violin range G3 to E7.
C29_FallbackToViolin ==
    (sOut.done /\ ~ValidRange(sIn.range)) =>
        LET violin == generateStaffConfig(Note("G", "", 3), Note("E", "", 7))
        IN  /\ sOut.low = Note("G", "", 3)
            /\ sOut.high = Note("E", "", 7)
            /\ sOut.totalNotes = 27
            /\ sOut.staffLines = violin.staffLines
            /\ sOut.notePositions = violin.notePositions

\* the inverted range E7 to G3
C29_Witness ==
    /\ sOut.done
    /\ sIn.range = [low |-> Note("E", "", 7), high |-> Note("G", "", 3)]
    /\ sOut.low = Note("G", "", 3)
    /\ sOut.totalNotes = 27

\* C30: the horizontal position is linear and strictly increasing in the
\* index, one step of 0.32 per entry back from the newest entry, and the
\* newest entry is at the same offset for every buffer length from 1 to the
\* capacity: the offset it has in a full buffer.
C30_NewestAtFixedOffset ==
    lOut.done =>
        /\ lOut.left = lOut.newest - 32 * (lIn.total - 1 - lIn.idx)
        /\ lIn.total <= Capacity => lOut.newest = 32 * (Capacity - 1)

----------------------------------------------------------------------------
(* Claims about one stream end to end *)

\* the four samples were delivered and everything they caused has been applied
StreamDone ==
    /\ delivered = Len(StreamPitches)
    /\ ~notePending
    /\ updateQueue = <<>>

\* C31: feeding 440, 440, 440, 660 Hz with clarity 1.0 at 20 ms spacing and
\* reference 442 Hz into an empty session leaves a buffer whose last entry is
\* the one for 660 Hz, labelled E5, and whose entries before it, at least
\* one, are those of the stable run: 440 Hz, labelled A4, with a negative
\* (flat) deviation.
C31_EndToEnd ==
    StreamDone =>
        LET n == Len(latestNotes)
        IN  /\ n >= 2
            /\ latestNotes[n].freq = 660
            /\ latestNotes[n].note = "E5"
            /\ \A i \in 1..(n - 1) :
                   /\ latestNotes[i].freq = 440
                   /\ latestNotes[i].note = "A4"
                   /\ Cents(latestNotes[i].freq) < 0
                   /\ noteAccuracy(Num(latestNotes[i].freq)) = "-8.0"

\* the stream has been taken in and the buffer ends with A4 then E5
C31_Witness ==
    /\ StreamDone
    /\ now = StartTime + StreamSpacing * Len(StreamPitches)
    /\ Len(latestNotes) >= 2
    /\ latestNotes[Len(latestNotes) - 1].note = "A4"
    /\ latestNotes[Len(latestNotes)].note = "E5"

----------------------------------------------------------------------------
(* Claims about the beat *)

----------------------------------------------------------------------------
(* Claims about the rounding to the nearest semitone *)

\* the offset lies exactly halfway between two adjacent semitones
Halfway == rIn % 100 = 50

\* the upper of the two semitones rIn lies between, for a halfway offset
UpperSemitone == (rIn + 50) \div 100

\* C33: rounding to the nearest semitone is half-up: a frequency exactly
\* halfway between two adjacent semitones is classified as the upper one, for
\* positive and for negative offsets from A4; label, cents and tier come from
\* the same nearest semitone, so such a frequency reports -50 cents against
\* the upper note, and every deviation lies in [-50, 50).
C33_HalfUp ==
    rOut.done =>
        /\ 100 * rOut.nearest - 50 <= rIn
        /\ rIn < 100 * rOut.nearest + 50
        /\ rOut.pitchClass = NOTES[((rOut.nearest + 57) % 12) + 1]
        /\ rOut.octave = (rOut.nearest + 57) \div 12
        /\ rOut.cents = rIn - 100 * rOut.nearest
        /\ Halfway =>
              /\ rOut.nearest = UpperSemitone
              /\ rOut.cents = -50
              /\ rOut.color = "bg-red-500"

\* halfway between G4 and G#4, below A4: classified as G#4, 50 cents flat
C33_Witness ==
    /\ rOut.done
    /\ rIn = -150
    /\ rOut.nearest = -1
    /\ rOut.pitchClass = "G#"
    /\ rOut.octave = 4
    /\ rOut.cents = -50

----------------------------------------------------------------------------
(* Claims about a drifting tone *)

\* the frequency of the observation appended last, 0 before the first
LastAppendedFreq == IF serial = <<>> THEN 0 ELSE serial[Len(serial)].freq

\* C34: a sample dropped by the throttle leaves addNoteRef and lastFreqRef
\* unchanged, so the jump test compares against the frequency appended last:
\* in a sequence of drifts of at most 10 Hz each, a sample is appended as soon
\* as its distance from the last appended frequency exceeds 10 Hz.
C34_DriftAgainstLastAppended ==
    /\ [][(EffectStep /\ ~Appends) => UNCHANGED <<addNoteRef, lastFreqRef>>]_vars
    /\ [][(EffectStep /\ Valid(freq) /\ Abs(freq.val - LastAppendedFreq) > 10) =>
            (Appends /\ lastFreqRef' = freq.val /\ addNoteRef' = now)]_vars
    /\ [](lastFreqRef = LastAppendedFreq)

\* 440 Hz was appended, 448 Hz dropped, and 456 Hz, 8 Hz from the sample
\* before it and 16 Hz from 440, appended within the throttle interval
C34_Witness ==
    /\ lastOp.op = "appended"
    /\ lastOp.freqChange = 16
    /\ lastOp.timeSince < MinInterval
    /\ delivered = 3
    /\ Len(serial) = 2
    /\ serial[1].freq = 440
    /\ serial[2].freq = 456

----------------------------------------------------------------------------
(* Claims about the beat counter and the restarts of the timer *)

\* C35: in every reachable state the beat counter is an integer in
\* [0, beatsPerMeasure) for the beatsPerMeasure of the timer that is running,
\* also right after the time signature changed from a larger to a smaller
\* numerator.
C35_CounterInMeasure ==
    /\ beatCountRef \in Nat
    /\ \A t \in timers : beatCountRef < t.beatsPerMeasure
    /\ metronomeEnabled => beatCountRef < BeatsPerMeasure(timeSignature)

\* three beats at 4/4, then the time signature was changed to 3/4
C35_Witness ==
    /\ metronomeEnabled
    /\ lastOp.op = "config"
    /\ timeSignature = "3/4"
    /\ ticksFired = 3
    /\ stoppedAt = 0
    /\ beatCountRef = 0
    /\ \E t \in timers : t.beatsPerMeasure = 3

\* C36: a change of the metronome's volume or sound while it runs tears the
\* timer down and starts a new one with the beat counter at 0 and no beat
\* fired yet, as a change of bpm, time signature or accent does.
C36_SoundRestarts ==
    [][(metronomeEnabled /\
        <<metronomeSound', metronomeVolume'>> # <<metronomeSound, metronomeVolume>>) =>
          /\ metronomeEnabled'
          /\ beatCountRef' = 0
          /\ beatIndex' = 0
          /\ timers' = {ConfiguredTimer(metronomeInterval')}
      ]_vars

\* the sound was changed to wood in the middle of a measure
C36_Witness ==
    /\ metronomeEnabled
    /\ lastOp.op = "sound"
    /\ lastOp.count = 2
    /\ metronomeSound = "wood"
    /\ beatCountRef = 0
    /\ beatIndex = 0
    /\ Cardinality(timers) = 1

----------------------------------------------------------------------------
(* Claims about the stopped metronome *)

\* the number of tick-marked observations of a buffer
TickCount(s) == Cardinality({i \in 1..Len(s) : s[i].isTick})

----------------------------------------------------------------------------
(* Claims about the labels in the buffer *)

\* one of the 12 pitch-class names followed by an integer octave
WellFormedLabels == {NOTES[i] \o ToString(o) : i \in 1..12, o \in (-2)..10}

\* C38 (as claimed): in every reachable state each observation in the buffer
\* has a non-null, non-zero frequency and a label made of one of the 12
\* pitch-class names followed by an integer octave; '--' and malformed labels
\* never appear in the buffer.
C38_WellFormedBuffer ==
    \A i \in 1..Len(latestNotes) :
        /\ latestNotes[i].freq # 0
        /\ latestNotes[i].note # "--"
        /\ latestNotes[i].note \in WellFormedLabels

----------------------------------------------------------------------------
(* Claims about the life of the pitch-detection session *)

\* C39 (as claimed): every audio context opened by the pitch-detection
\* session is closed once the session has been torn down, also when the
\* teardown happens while the microphone is still awaited and setup resumes
\* afterwards; and no polling timer is left scheduled.
C39_ContextClosed ==
    (~isMounted /\ ~micPending) => (audioContext # "open" /\ ~pollTimer)

----------------------------------------------------------------------------
(* Claims about the two staff generators *)

\* C40: the optimized staff generator (sharps per octave of the range) and
\* the original one (sharps over the whole chromatic table) produce the same
\* staff lines and the same map from notes to positions for every pair of
\* natural notes between C0 and B8 as low and high note, the invalid pairs
\* that fall back to the violin range included.
C40_GeneratorsAgree ==
    sOut.done =>
        /\ sOrig.done
        /\ sOut.staffLines = sOrig.staffLines
        /\ sOut.notePositions = sOrig.notePositions
        /\ sOut.totalNotes = sOrig.totalNotes

\* the range A0 to C8, which ends on the first note of an octave: both
\* generators give A#7 a position and C#8 none
C40_Witness ==
    /\ sOut.done
    /\ sOrig.done
    /\ sIn.range = [low |-> Note("A", "", 0), high |-> Note("C", "", 8)]
    /\ sOrig.totalNotes = 52
    /\ Note("A", "#", 7) \in DOMAIN sOut.notePositions
    /\ Note("A", "#", 7) \in DOMAIN sOrig.notePositions
    /\ Note("C", "#", 8) \notin DOMAIN sOrig.notePositions

====
